---- MODULE Spec2Model ----
(***************************************************************************)
(* tennis-intel: the request handlers of src/index.ts as a state machine.  *)
(*                                                                         *)
(* An invocation of an entrypoint is validated against the entrypoint's    *)
(* input schema, issues its upstream fetches, is suspended until the       *)
(* fetches settle (Promise.all) and then runs the rest of its body to      *)
(* completion (JavaScript runs a continuation without interruption).       *)
(*                                                                         *)
(* Encodings.  A value that may be undefined is a sequence of length 0     *)
(* (undefined) or 1 (the value).  A string that the code inspects          *)
(* (toLowerCase, includes) is a sequence of one-character strings.  A      *)
(* timestamp is a day number (new Date(s).getTime() / 86400000), NaN is    *)
(* the undefined number.  fetchedAt (the wall clock) is left out of the    *)
(* envelopes.                                                              *)
(***************************************************************************)
EXTENDS Integers, Sequences, FiniteSets, TLC

VARIABLES
    pc,       \* per invocation: idle, rejected, awaiting, returned, failed
    handler,  \* per invocation: the entrypoint key
    request,  \* per invocation: the raw input as sent
    input,    \* per invocation: ctx.input, the schema's parse of the request
    fetch,    \* per invocation and tour: none, pending, ok, fail
    resp,     \* per invocation and tour: the JSON body of a fetch that is ok
    output,   \* per invocation: the returned envelope
    heap,     \* per allocation slot: the seen set, matches and players lists
    tracker,  \* agent.analytics?.paymentTracker is present
    calls,    \* the calls made to the analytics collaborator
    engine    \* the JavaScript engine the service runs on

vars ==
    <<pc, handler, request, input, fetch, resp, output, heap, tracker, calls,
      engine>>

(***************************************************************************)
(* Bounds of the model.                                                    *)
(***************************************************************************)
NumInv == 2
MaxRanks == 102
MaxLimit == 102
MaxNegLimit == 2
MaxArticles == 4
MaxMatches == 3
MaxPlayers == 3
MaxTxs == 3

(***************************************************************************)
(* Program constants.                                                      *)
(***************************************************************************)
OverviewTop == 5
RankingsDefaultLimit == 50
RankingsCap == 100
NewsDefaultLimit == 10
NewsCap == 25
TxDefaultLimit == 50

Inv == 1..NumInv
Tours == {"ATP", "WTA"}

None == <<>>
Some(v) == <<v>>
Max(a, b) == IF a >= b THEN a ELSE b
MathMin(a, b) == IF a <= b THEN a ELSE b

\* Array.prototype.slice(0, end) for an integer end: a negative end counts
\* from the end of the array.
Slice(s, end) ==
    LET len == Len(s)
        final == IF end < 0 THEN Max(len + end, 0) ELSE MathMin(end, len)
    IN  SubSeq(s, 1, final)

\* r.athlete?.<field>
AthleteField(r, f) == IF r.athlete = None THEN None ELSE r.athlete[1][f]

(***************************************************************************)
(* Input schemas (zod).  A request is a record of optional fields.         *)
(***************************************************************************)
UpstreamHandlers ==
    {"overview", "atp-rankings", "wta-rankings", "news", "live-matches",
     "player-search"}

NoRequest == [limit |-> None, tour |-> None, query |-> None, windowMs |-> None]
NoInput == [limit |-> 0, tour |-> "both", query |-> None, windowMs |-> None]

TourEnum == {"atp", "wta", "both"}
TourFieldOk(raw) == raw.tour = None \/ raw.tour[1] \in TourEnum

\* z.string(): required, any string (the empty string included).
QueryFieldOk(raw) == raw.query # None

SchemaAccepts(h, raw) ==
    CASE h \in {"news", "live-matches"} -> TourFieldOk(raw)
      [] h = "player-search" -> QueryFieldOk(raw) /\ TourFieldOk(raw)
      [] OTHER -> TRUE

DefaultLimit(h) ==
    CASE h \in {"atp-rankings", "wta-rankings"} -> RankingsDefaultLimit
      [] h = "news" -> NewsDefaultLimit
      [] h = "analytics-transactions" -> TxDefaultLimit
      [] OTHER -> 0

Parse(h, raw) ==
    [limit    |-> IF raw.limit = None THEN DefaultLimit(h) ELSE raw.limit[1],
     tour     |-> IF raw.tour = None THEN "both" ELSE raw.tour[1],
     query    |-> raw.query,
     windowMs |-> raw.windowMs]

\* The tours whose URL the handler pushes, in the order of the pushes.
SelectedTours(tour) ==
    (IF tour \in {"atp", "both"} THEN <<"ATP">> ELSE <<>>) \o
    (IF tour \in {"wta", "both"} THEN <<"WTA">> ELSE <<>>)

Urls(h, in) ==
    CASE h = "overview" -> <<"ATP", "WTA">>
      [] h = "atp-rankings" -> <<"ATP">>
      [] h = "wta-rankings" -> <<"WTA">>
      [] OTHER -> SelectedTours(in.tour)

Range(s) == {s[k] : k \in 1..Len(s)}

(***************************************************************************)
(* fetchESPN and Promise.all.                                              *)
(***************************************************************************)
\* response.ok
ResponseOk(status) == status >= 200 /\ status <= 299

\* A variant that waits for every fetch and fulfils whatever they did, as
\* Promise.allSettled does.
PromiseAllSettled(st) ==
    IF \A t \in Tours : st[t] # "pending" THEN "fulfilled" ELSE "pending"

\* The state of Promise.all over the fetches an invocation issued.
PromiseAll(st) ==
    IF \E t \in Tours : st[t] = "fail" THEN "rejected"
    ELSE IF \A t \in Tours : st[t] \in {"none", "ok"} THEN "fulfilled"
    ELSE "pending"

EmptyBody == [ranks |-> None, articles |-> None, events |-> None]
NoOutput == [kind |-> "none"]
EmptySlot == [seen |-> {}, matches |-> <<>>, players |-> <<>>]

(***************************************************************************)
(* Rankings: overview, atp-rankings, wta-rankings.                         *)
(***************************************************************************)
Top5Record(r) ==
    [rank |-> r.current, name |-> AthleteField(r, "displayName"),
     points |-> r.points]

\* A variant without the slice(0, 5).
OverviewAll(body) ==
    IF body.ranks = None THEN <<>>
    ELSE [k \in 1..Len(body.ranks[1]) |-> Top5Record(body.ranks[1][k])]

OverviewTop5(body) ==
    IF body.ranks = None THEN <<>>
    ELSE LET top == Slice(body.ranks[1], OverviewTop)
         IN  [k \in 1..Len(top) |-> Top5Record(top[k])]

OverviewOutput(bodies) ==
    [kind |-> "overview",
     atp |-> [label |-> "ATP Top 5", players |-> OverviewTop5(bodies["ATP"])],
     wta |-> [label |-> "WTA Top 5", players |-> OverviewTop5(bodies["WTA"])]]

RankingRecord(r) ==
    [rank |-> r.current, previousRank |-> r.previous,
     movement |-> r.previous - r.current, trend |-> r.trend,
     name |-> AthleteField(r, "displayName"),
     firstName |-> AthleteField(r, "firstName"),
     lastName |-> AthleteField(r, "lastName"),
     id |-> AthleteField(r, "id"), points |-> r.points,
     profileUrl |-> AthleteField(r, "href")]

RankingsLimit(in) == MathMin(in.limit, RankingsCap)

RankingsList(in, body) ==
    IF body.ranks = None THEN <<>>
    ELSE LET top == Slice(body.ranks[1], RankingsLimit(in))
         IN  [k \in 1..Len(top) |-> RankingRecord(top[k])]

RankingsOutput(label, in, body) ==
    LET rankings == RankingsList(in, body)
    IN  [kind |-> "rankings", tour |-> label,
         totalRanked |-> Len(rankings), rankings |-> rankings]

(***************************************************************************)
(* Array.prototype.sort(comparefn).                                        *)
(*                                                                         *)
(* The engine reads a comparator result of NaN as +0.  With a comparator   *)
(* that is a consistent ordering every engine returns the one stable       *)
(* ordering; with one that is not (a NaN between two dated articles) the   *)
(* order is implementation-defined, so the sort is modelled by the two     *)
(* algorithms the service runs on: V8's TimSort, which for an array        *)
(* shorter than 64 is one run found by CountAndMakeRun and extended by     *)
(* BinaryInsertionSort, and JavaScriptCore's bottom-up merge sort, which   *)
(* takes the right element only when the comparator puts it strictly       *)
(* first.  The comparators are defined with their handlers below.          *)
(***************************************************************************)
Engines == {"v8", "jsc"}

SortCompare(v) == IF v = None THEN 0 ELSE v[1]

(***************************************************************************)
(* News.                                                                   *)
(***************************************************************************)
\* new Date(published).getTime(), in days; NaN for a missing or unparsable
\* date.
GetTime(published) ==
    IF published = None THEN None
    ELSE CASE published[1] = "2024-01-01" -> Some(19723)
           [] published[1] = "2024-01-02" -> Some(19724)
           [] OTHER -> None

\* A variant with the operands swapped: a's time minus b's.
NewsCompareAscending(a, b) ==
    LET ta == GetTime(a.published)
        tb == GetTime(b.published)
    IN  IF ta = None \/ tb = None THEN None ELSE Some(ta[1] - tb[1])

\* The comparator of the news sort: b's time minus a's.
NewsCompare(a, b) ==
    LET ta == GetTime(a.published)
        tb == GetTime(b.published)
    IN  IF ta = None \/ tb = None THEN None ELSE Some(tb[1] - ta[1])

\* The fields of an article the handler copies, other than the ones it only
\* passes through (description, lastModified, type, imageUrl, link,
\* categories).
ArticleRecord(a) == [id |-> a.id, headline |-> a.headline, published |-> a.published]

ArticlesOf(body) ==
    IF body.articles = None THEN <<>>
    ELSE [k \in 1..Len(body.articles[1]) |-> ArticleRecord(body.articles[1][k])]

\* results.flatMap(...) over the responses, in the order of the URLs.
RECURSIVE FlatArticles(_, _)
FlatArticles(tours, bodies) ==
    IF tours = <<>> THEN <<>>
    ELSE ArticlesOf(bodies[Head(tours)]) \o FlatArticles(Tail(tours), bodies)

\* filter(a => { if (seen.has(a.id)) return false; seen.add(a.id); return true })
RECURSIVE DedupeFrom(_, _)
DedupeFrom(s, seen) ==
    IF s = <<>> THEN [kept |-> <<>>, seen |-> seen]
    ELSE IF Head(s).id \in seen THEN DedupeFrom(Tail(s), seen)
    ELSE LET rest == DedupeFrom(Tail(s), seen \cup {Head(s).id})
         IN  [kept |-> <<Head(s)>> \o rest.kept, seen |-> rest.seen]

NewsLimit(in) == MathMin(in.limit, NewsCap)

\* The handler's body after the sort, given the sorted list and the contents
\* of its seen set when the filter starts: the envelope and the seen set
\* left behind.
NewsOutcome(in, sorted, seen) ==
    LET d == DedupeFrom(sorted, seen)
        unique == Slice(d.kept, NewsLimit(in))
    IN  [out |-> [kind |-> "news", tour |-> in.tour, count |-> Len(unique),
                  articles |-> unique],
         seen |-> d.seen]

(***************************************************************************)
(* Live matches.                                                           *)
(***************************************************************************)
\* One pushed match.  The fields the handler only passes through (round,
\* status, players, venue) are left out.
MatchRecord(tour, event, comp) ==
    [tour |-> tour,
     tournament |-> IF event.name = None THEN "Tournament" ELSE event.name[1],
     isLive |-> comp.state = Some("in"),
     isComplete |-> comp.completed = Some(TRUE),
     startTime |-> comp.startDate]

CompetitionsOf(event) ==
    IF event.competitions = None THEN <<>> ELSE event.competitions[1]

EventsOf(body) == IF body.events = None THEN <<>> ELSE body.events[1]

\* for (const comp of competitions) matches.push(...)
EventMatches(tour, event) ==
    [k \in 1..Len(CompetitionsOf(event)) |->
        MatchRecord(tour, event, CompetitionsOf(event)[k])]

\* for (const event of events) ...
RECURSIVE BodyMatches(_, _)
BodyMatches(tour, events) ==
    IF events = <<>> THEN <<>>
    ELSE EventMatches(tour, Head(events)) \o BodyMatches(tour, Tail(events))

\* for (const { tour, data } of results) ...
RECURSIVE PushMatches(_, _, _)
PushMatches(matches, tours, bodies) ==
    IF tours = <<>> THEN matches
    ELSE PushMatches(matches \o BodyMatches(Head(tours), EventsOf(bodies[Head(tours)])),
                     Tail(tours), bodies)

\* A variant without the two isLive tests.
LiveCompareByTime(a, b) ==
    LET ta == GetTime(a.startTime)
        tb == GetTime(b.startTime)
    IN  IF ta = None \/ tb = None THEN None ELSE Some(ta[1] - tb[1])

\* The comparator of the matches sort: live first, then by start time.
LiveCompare(a, b) ==
    IF a.isLive /\ ~b.isLive THEN Some(0 - 1)
    ELSE IF ~a.isLive /\ b.isLive THEN Some(1)
    ELSE LET ta == GetTime(a.startTime)
             tb == GetTime(b.startTime)
         IN  IF ta = None \/ tb = None THEN None ELSE Some(ta[1] - tb[1])

LiveCount(matches) == Cardinality({k \in 1..Len(matches) : matches[k].isLive})

\* The handler's return, given its matches array after the sort.
LiveOutcome(in, sorted) ==
    [out |-> [kind |-> "live-matches", tour |-> in.tour,
              totalMatches |-> Len(sorted), liveCount |-> LiveCount(sorted),
              matches |-> sorted],
     matches |-> sorted]

(***************************************************************************)
(* Player search.                                                          *)
(***************************************************************************)
\* String.prototype.toLowerCase over the model's alphabet.
LowerChar(ch) ==
    CASE ch = "A" -> "a"
      [] ch = "B" -> "b"
      [] OTHER -> ch

ToLowerCase(str) == [k \in 1..Len(str) |-> LowerChar(str[k])]

\* String.prototype.includes
Includes(str, sub) ==
    \E k \in 0..(Len(str) - Len(sub)) : SubSeq(str, k + 1, k + Len(sub)) = sub

\* r.athlete?.<field>?.toLowerCase() || ''
LowerOrEmpty(r, f) ==
    IF AthleteField(r, f) = None THEN <<>> ELSE ToLowerCase(AthleteField(r, f)[1])

QueryMatches(r, query) ==
    \/ Includes(LowerOrEmpty(r, "displayName"), query)
    \/ Includes(LowerOrEmpty(r, "firstName"), query)
    \/ Includes(LowerOrEmpty(r, "lastName"), query)

PlayerRecord(tour, r) ==
    [tour |-> tour, rank |-> r.current, previousRank |-> r.previous,
     movement |-> r.previous - r.current,
     name |-> AthleteField(r, "displayName"),
     firstName |-> AthleteField(r, "firstName"),
     lastName |-> AthleteField(r, "lastName"),
     id |-> AthleteField(r, "id"), points |-> r.points, trend |-> r.trend,
     profileUrl |-> AthleteField(r, "href")]

RanksOf(body) == IF body.ranks = None THEN <<>> ELSE body.ranks[1]

\* for (const r of ranks) if (...) players.push(...)
RECURSIVE RankHits(_, _, _)
RankHits(tour, ranks, query) ==
    IF ranks = <<>> THEN <<>>
    ELSE (IF QueryMatches(Head(ranks), query)
          THEN <<PlayerRecord(tour, Head(ranks))>> ELSE <<>>)
         \o RankHits(tour, Tail(ranks), query)

RECURSIVE PushPlayers(_, _, _, _)
PushPlayers(players, tours, bodies, query) ==
    IF tours = <<>> THEN players
    ELSE PushPlayers(players \o RankHits(Head(tours), RanksOf(bodies[Head(tours)]), query),
                     Tail(tours), bodies, query)

\* The comparator of the players sort: a.rank - b.rank.
RankCompare(a, b) == Some(a.rank - b.rank)

\* The handler's return, given its players array before and after the
\* sort: found is read before the in-place sort.
SearchOutcome(in, pushed, sorted) ==
    [out |-> [kind |-> "player-search", query |-> in.query[1],
              tour |-> in.tour, found |-> Len(pushed), players |-> sorted],
     players |-> sorted]

(***************************************************************************)
(* Analytics.                                                              *)
(***************************************************************************)
\* A variant without the guard: the tracker is never found missing.
TrackerAssumed(t) == FALSE

\* if (!tracker)
TrackerMissing(t) == ~t

SummaryOutput(summary) ==
    [kind |-> "analytics", error |-> None,
     outgoingTotal |-> ToString(summary.outgoingTotal),
     incomingTotal |-> ToString(summary.incomingTotal),
     netTotal |-> ToString(summary.netTotal)]

AnalyticsUnavailable ==
    [kind |-> "analytics", error |-> Some("Analytics not available"),
     payments |-> <<>>]

TransactionsOutput(in, txs) ==
    [kind |-> "analytics-transactions", transactions |-> Slice(txs, in.limit)]

CsvOutput(csv) == [kind |-> "analytics-csv", csv |-> csv]

(***************************************************************************)
(* The sort algorithms.                                                    *)
(***************************************************************************)
\* comparefn(x, y) for the comparator of the named handler.
Compare(cmp, x, y) ==
    CASE cmp = "news" -> NewsCompare(x, y)
      [] cmp = "live-matches" -> LiveCompare(x, y)
      [] cmp = "player-search" -> RankCompare(x, y)

Order(cmp, x, y) == SortCompare(Compare(cmp, x, y))

Reverse(s) == [k \in 1..Len(s) |-> s[Len(s) + 1 - k]]

\* The length of the run that starts the array, given its first len
\* elements are one: strictly descending, or not descending.
RECURSIVE RunLength(_, _, _, _)
RunLength(cmp, s, descending, len) ==
    IF len = Len(s) THEN len
    ELSE IF descending
         THEN (IF Order(cmp, s[len + 1], s[len]) >= 0 THEN len
               ELSE RunLength(cmp, s, descending, len + 1))
         ELSE (IF Order(cmp, s[len + 1], s[len]) < 0 THEN len
               ELSE RunLength(cmp, s, descending, len + 1))

\* V8 CountAndMakeRun: the run's length, and the array with a descending
\* run reversed.
CountAndMakeRun(cmp, s) ==
    LET descending == Order(cmp, s[2], s[1]) < 0
        run == RunLength(cmp, s, descending, 2)
    IN  [run |-> run,
         arr |-> IF descending
                 THEN Reverse(SubSeq(s, 1, run)) \o SubSeq(s, run + 1, Len(s))
                 ELSE s]

\* The binary search of BinaryInsertionSort over s[left+1..right].
RECURSIVE InsertionPoint(_, _, _, _, _)
InsertionPoint(cmp, s, pivot, left, right) ==
    IF left >= right THEN left
    ELSE LET mid == left + ((right - left) \div 2)
         IN  IF Order(cmp, pivot, s[mid + 1]) < 0
             THEN InsertionPoint(cmp, s, pivot, left, mid)
             ELSE InsertionPoint(cmp, s, pivot, mid + 1, right)

\* V8 BinaryInsertionSort: the first `start` elements are sorted.
RECURSIVE BinaryInsertionSort(_, _, _)
BinaryInsertionSort(cmp, s, start) ==
    IF start >= Len(s) THEN s
    ELSE LET pivot == s[start + 1]
             left == InsertionPoint(cmp, s, pivot, 0, start)
         IN  BinaryInsertionSort(cmp,
                SubSeq(s, 1, left) \o <<pivot>> \o SubSeq(s, left + 1, start)
                   \o SubSeq(s, start + 2, Len(s)),
                start + 1)

\* V8 ArrayTimSortImpl for an array shorter than 64 (one run).
TimSort(cmp, s) ==
    IF Len(s) < 2 THEN s
    ELSE BinaryInsertionSort(cmp, CountAndMakeRun(cmp, s).arr,
                             CountAndMakeRun(cmp, s).run)

\* JavaScriptCore merge: the right head goes first only when the comparator
\* puts it strictly before the left head.
RECURSIVE Merge(_, _, _)
Merge(cmp, left, right) ==
    IF right = <<>> THEN left
    ELSE IF left = <<>> THEN right
    ELSE IF Order(cmp, Head(right), Head(left)) < 0
         THEN <<Head(right)>> \o Merge(cmp, left, Tail(right))
         ELSE <<Head(left)>> \o Merge(cmp, Tail(left), right)

\* One pass: merge the neighbouring runs of the given width.
RECURSIVE MergePass(_, _, _)
MergePass(cmp, s, width) ==
    IF Len(s) <= width THEN s
    ELSE Merge(cmp, SubSeq(s, 1, width),
               SubSeq(s, width + 1, MathMin(2 * width, Len(s))))
         \o MergePass(cmp, SubSeq(s, 2 * width + 1, Len(s)), width)

RECURSIVE MergeWidths(_, _, _)
MergeWidths(cmp, s, width) ==
    IF width >= Len(s) THEN s
    ELSE MergeWidths(cmp, MergePass(cmp, s, width), 2 * width)

MergeSort(cmp, s) == MergeWidths(cmp, s, 1)

ArraySort(eng, cmp, s) == IF eng = "v8" THEN TimSort(cmp, s) ELSE MergeSort(cmp, s)

\* The three handlers that sort, from the sort on, given the engine and
\* what their accumulators (seen set, matches, players) hold at the start.
NewsBody(eng, in, bodies, seen) ==
    NewsOutcome(in, ArraySort(eng, "news",
                              FlatArticles(SelectedTours(in.tour), bodies)), seen)

LiveBody(eng, in, bodies, matches) ==
    LiveOutcome(in, ArraySort(eng, "live-matches",
                              PushMatches(matches, SelectedTours(in.tour), bodies)))

SearchBody(eng, in, bodies, players) ==
    LET pushed == PushPlayers(players, SelectedTours(in.tour), bodies,
                              ToLowerCase(in.query[1]))
    IN  SearchOutcome(in, pushed, ArraySort(eng, "player-search", pushed))

(***************************************************************************)
(* Actions.                                                                *)
(***************************************************************************)
\* The registry validates the request against the schema; the handler then
\* builds its URL list and issues one fetch per URL.
Begin(i, h, raw) ==
    /\ pc[i] = "idle"
    /\ handler' = [handler EXCEPT ![i] = h]
    /\ request' = [request EXCEPT ![i] = raw]
    /\ IF SchemaAccepts(h, raw)
       THEN /\ input' = [input EXCEPT ![i] = Parse(h, raw)]
            /\ fetch' = [fetch EXCEPT ![i] =
                  [t \in Tours |->
                     IF t \in Range(Urls(h, Parse(h, raw)))
                     THEN "pending" ELSE "none"]]
            /\ pc' = [pc EXCEPT ![i] = "awaiting"]
       ELSE /\ pc' = [pc EXCEPT ![i] = "rejected"]
            /\ UNCHANGED <<input, fetch>>
    /\ UNCHANGED <<resp, output, heap, tracker, calls, engine>>

\* A fetch answers with a 2xx status and a JSON body.
FetchResolve(i, t, status, body) ==
    /\ fetch[i][t] = "pending"
    /\ ResponseOk(status)
    /\ fetch' = [fetch EXCEPT ![i][t] = "ok"]
    /\ resp' = [resp EXCEPT ![i][t] = body]
    /\ UNCHANGED <<pc, handler, request, input, output, heap, tracker, calls, engine>>

\* A fetch fails (network failure, or a status that is not 2xx): fetchESPN
\* throws, Promise.all rejects and the handler's await throws.
FetchReject(i, t, status) ==
    /\ fetch[i][t] = "pending"
    /\ IF status = None THEN TRUE ELSE ~ResponseOk(status[1])
    /\ fetch' = [fetch EXCEPT ![i][t] = "fail"]
    /\ pc' = [pc EXCEPT ![i] =
          IF pc[i] = "awaiting"
             /\ PromiseAll([fetch[i] EXCEPT ![t] = "fail"]) = "rejected"
          THEN "failed" ELSE pc[i]]
    /\ UNCHANGED <<handler, request, input, resp, output, heap, tracker, calls,
                   engine>>

\* The continuation of the await: runs once every fetch is fulfilled.
Resumes(i, h) ==
    /\ pc[i] = "awaiting"
    /\ handler[i] = h
    /\ PromiseAll(fetch[i]) = "fulfilled"

Return(i, out) ==
    /\ output' = [output EXCEPT ![i] = out]
    /\ pc' = [pc EXCEPT ![i] = "returned"]
    /\ UNCHANGED <<handler, request, input, fetch, resp, tracker, calls, engine>>

OverviewCall(i) == Begin(i, "overview", NoRequest)

OverviewReturn(i) ==
    /\ Resumes(i, "overview")
    /\ Return(i, OverviewOutput(resp[i]))
    /\ UNCHANGED heap

AtpRankingsCall(i, raw) == Begin(i, "atp-rankings", raw)

AtpRankingsReturn(i) ==
    /\ Resumes(i, "atp-rankings")
    /\ Return(i, RankingsOutput("ATP", input[i], resp[i]["ATP"]))
    /\ UNCHANGED heap

WtaRankingsCall(i, raw) == Begin(i, "wta-rankings", raw)

WtaRankingsReturn(i) ==
    /\ Resumes(i, "wta-rankings")
    /\ Return(i, RankingsOutput("WTA", input[i], resp[i]["WTA"]))
    /\ UNCHANGED heap

\* A variant with the objects hoisted to module scope: every invocation
\* uses the same ones.
AllocShared(i) == 1

\* The objects an invocation allocates (new Set(), the matches and players
\* arrays) are its own.
Alloc(i) == i

NewsCall(i, raw) == Begin(i, "news", raw)

NewsReturn(i) ==
    /\ Resumes(i, "news")
    /\ LET r == NewsBody(engine, input[i], resp[i], heap[Alloc(i)].seen)
       IN  /\ Return(i, r.out)
           /\ heap' = [heap EXCEPT ![Alloc(i)].seen = r.seen]

LiveMatchesCall(i, raw) == Begin(i, "live-matches", raw)

LiveMatchesReturn(i) ==
    /\ Resumes(i, "live-matches")
    /\ LET r == LiveBody(engine, input[i], resp[i], heap[Alloc(i)].matches)
       IN  /\ Return(i, r.out)
           /\ heap' = [heap EXCEPT ![Alloc(i)].matches = r.matches]

PlayerSearchCall(i, raw) == Begin(i, "player-search", raw)

PlayerSearchReturn(i) ==
    /\ Resumes(i, "player-search")
    /\ LET r == SearchBody(engine, input[i], resp[i], heap[Alloc(i)].players)
       IN  /\ Return(i, r.out)
           /\ heap' = [heap EXCEPT ![Alloc(i)].players = r.players]

\* An analytics handler: no upstream fetch; the collaborator is called only
\* when the tracker is there, and answers with `data`.
Collaborate(i, h, raw, call, degraded, out) ==
    /\ pc[i] = "idle"
    /\ handler' = [handler EXCEPT ![i] = h]
    /\ request' = [request EXCEPT ![i] = raw]
    /\ input' = [input EXCEPT ![i] = Parse(h, raw)]
    /\ pc' = [pc EXCEPT ![i] = "returned"]
    /\ IF TrackerMissing(tracker)
       THEN /\ output' = [output EXCEPT ![i] = degraded]
            /\ calls' = calls
       ELSE /\ output' = [output EXCEPT ![i] = out]
            /\ calls' = Append(calls, call)
    /\ UNCHANGED <<fetch, resp, heap, tracker, engine>>

Analytics(i, raw, summary) ==
    Collaborate(i, "analytics", raw, "getSummary", AnalyticsUnavailable,
                SummaryOutput(summary))

AnalyticsTransactions(i, raw, txs) ==
    Collaborate(i, "analytics-transactions", raw, "getAllTransactions",
                TransactionsOutput(Parse("analytics-transactions", raw), <<>>),
                TransactionsOutput(Parse("analytics-transactions", raw), txs))

AnalyticsCsv(i, raw, csv) ==
    Collaborate(i, "analytics-csv", raw, "exportToCSV", CsvOutput(""),
                CsvOutput(csv))

(***************************************************************************)
(* The inputs the model draws.                                             *)
(***************************************************************************)
Statuses == {200, 204, 299}
\* No status: the network failed.
FailStatuses == {None, Some(199), Some(300), Some(404), Some(500)}

\* An upstream ranking entry; every fourth has no athlete object.
GenEntry(k) ==
    [current |-> k, previous |-> k + ((k % 3) - 1), trend |-> "-",
     points |-> 12000 - 100 * k,
     athlete |-> IF k % 4 = 0 THEN None
                 ELSE Some([displayName |-> Some(<<"P">>),
                            firstName |-> Some(<<"F">>),
                            lastName |-> None, id |-> Some(k),
                            href |-> None])]

GenRanks(n) == [k \in 1..n |-> GenEntry(k)]

\* Lengths and limits around the overview's 5, the default 50 and the cap 100.
RankLens == 0..(OverviewTop + 1) \cup (RankingsCap - 1)..MaxRanks

RankBodies ==
    {EmptyBody} \cup
    {[EmptyBody EXCEPT !.ranks = Some(GenRanks(n))] : n \in RankLens}

OverviewBodies ==
    {EmptyBody} \cup
    {[EmptyBody EXCEPT !.ranks = Some(GenRanks(n))] : n \in 0..(OverviewTop + 2)}

LimitValues ==
    (0 - MaxNegLimit)..(OverviewTop + 1) \cup
    (RankingsDefaultLimit - 1)..(RankingsDefaultLimit + 1) \cup
    (RankingsCap - 1)..MaxLimit

LimitRequests ==
    {NoRequest} \cup {[NoRequest EXCEPT !.limit = Some(n)] : n \in LimitValues}

SeqsUpTo(S, n) == UNION {[1..k -> S] : k \in 0..n}

\* "men" is no member of the tour enum.
TourRequests(base) ==
    {base} \cup {[base EXCEPT !.tour = Some(t)] : t \in TourEnum \cup {"men"}}

ArticleKinds ==
    {[id |-> "a", headline |-> "first", published |-> Some("2024-01-01")],
     [id |-> "a", headline |-> "second", published |-> Some("2024-01-02")],
     [id |-> "a", headline |-> "third", published |-> Some("2024-01-01")],
     [id |-> "b", headline |-> "undated", published |-> None]}

ArticleCount(bodies) ==
    Len(ArticlesOf(bodies["ATP"])) + Len(ArticlesOf(bodies["WTA"]))

\* The feeds of one invocation hold at most MaxArticles articles together.
NewsBodies(bodies) ==
    {EmptyBody} \cup
    {[EmptyBody EXCEPT !.articles = Some(s)] :
        s \in SeqsUpTo(ArticleKinds, MaxArticles - ArticleCount(bodies))}

NewsLimitValues == (0 - 1)..(MaxArticles - 1) \cup {NewsCap + 1}

NewsRequests ==
    {NoRequest, [NoRequest EXCEPT !.tour = Some("men")]} \cup
    {[NoRequest EXCEPT !.tour = Some(t), !.limit = Some(n)] :
        t \in TourEnum, n \in NewsLimitValues}

Dates == {Some("2024-01-01"), Some("2024-01-02"), Some("tbd"), None}

CompKinds ==
    {[state |-> Some("in"), completed |-> None, startDate |-> Some("2024-01-02")],
     [state |-> Some("in"), completed |-> None, startDate |-> None],
     [state |-> Some("pre"), completed |-> None, startDate |-> Some("2024-01-01")],
     [state |-> None, completed |-> Some(TRUE), startDate |-> Some("tbd")]}

Event(cs) == [name |-> Some("Open"), competitions |-> Some(cs)]
BareEvent == [name |-> None, competitions |-> None]

\* The event lists that hold the competitions cs: in one event, split over
\* two, or behind an event without a competitions list.
EventLists(cs) ==
    {<<Event(cs)>>, <<BareEvent, Event(cs)>>} \cup
    (IF cs = <<>> THEN {<<>>}
     ELSE {<<Event(SubSeq(cs, 1, 1)), Event(SubSeq(cs, 2, Len(cs)))>>})

MatchCount(bodies) ==
    Len(PushMatches(<<>>, <<"ATP", "WTA">>, bodies))

\* The scoreboards of one invocation hold at most MaxMatches competitions
\* together.
LiveBodies(bodies) ==
    {EmptyBody} \cup
    {[EmptyBody EXCEPT !.events = Some(evs)] :
        evs \in UNION {EventLists(cs) :
                         cs \in SeqsUpTo(CompKinds, MaxMatches - MatchCount(bodies))}}

LiveRequests == TourRequests(NoRequest)

Athlete(display, first, last) ==
    Some([displayName |-> display, firstName |-> first, lastName |-> last,
          id |-> None, href |-> None])

SearchEntry(rank, athlete) ==
    [current |-> rank, previous |-> rank + 1, trend |-> "-", points |-> 1000,
     athlete |-> athlete]

EntryKinds ==
    {SearchEntry(2, Athlete(Some(<<"A", "b">>), Some(<<"A">>), Some(<<"b">>))),
     SearchEntry(1, Athlete(None, Some(<<"a">>), None)),
     SearchEntry(1, None),
     SearchEntry(3, Athlete(Some(<<"B", "a">>), Some(<<"B">>), Some(<<"a">>)))}

PlayerCount(bodies) == Len(RanksOf(bodies["ATP"])) + Len(RanksOf(bodies["WTA"]))

\* The ranking lists of one invocation hold at most MaxPlayers entries
\* together.
SearchBodies(bodies) ==
    {EmptyBody} \cup
    {[EmptyBody EXCEPT !.ranks = Some(s)] :
        s \in SeqsUpTo(EntryKinds, MaxPlayers - PlayerCount(bodies))}

Queries == {<<>>, <<"a">>, <<"A">>, <<"a", "B">>, <<"b", "b">>}

SearchRequests ==
    {NoRequest, [NoRequest EXCEPT !.query = Some(<<"a">>), !.tour = Some("men")]}
    \cup {[NoRequest EXCEPT !.query = Some(q)] : q \in Queries}
    \cup {[NoRequest EXCEPT !.query = Some(q), !.tour = Some(t)] :
            q \in Queries, t \in TourEnum}

WindowRequests == {NoRequest, [NoRequest EXCEPT !.windowMs = Some(60000)]}

Summaries ==
    {[outgoingTotal |-> 0, incomingTotal |-> 0, netTotal |-> 0],
     [outgoingTotal |-> 1000, incomingTotal |-> 3000, netTotal |-> 2000]}

GenTxs(n) == [k \in 1..n |-> [id |-> k, amount |-> 1000 * k]]

TxLists == {GenTxs(n) : n \in 0..MaxTxs}

TxRequests ==
    WindowRequests \cup
    {[NoRequest EXCEPT !.limit = Some(n)] : n \in (0 - 1)..(MaxTxs - 1)}

Csvs == {"", "id,amount"}

Init ==
    /\ pc = [i \in Inv |-> "idle"]
    /\ handler = [i \in Inv |-> "none"]
    /\ request = [i \in Inv |-> NoRequest]
    /\ input = [i \in Inv |-> NoInput]
    /\ fetch = [i \in Inv |-> [t \in Tours |-> "none"]]
    /\ resp = [i \in Inv |-> [t \in Tours |-> EmptyBody]]
    /\ output = [i \in Inv |-> NoOutput]
    /\ heap = [i \in Inv |-> EmptySlot]
    /\ tracker = TRUE
    /\ calls = <<>>
    /\ engine \in Engines

BodiesFor(i) ==
    CASE handler[i] = "overview" -> OverviewBodies
      [] handler[i] \in {"atp-rankings", "wta-rankings"} -> RankBodies
      [] handler[i] = "news" -> NewsBodies(resp[i])
      [] handler[i] = "live-matches" -> LiveBodies(resp[i])
      [] handler[i] = "player-search" -> SearchBodies(resp[i])
      [] OTHER -> {EmptyBody}

\* The inputs of the runs with several invocations in flight: a few of the
\* requests and bodies above.
ConcNewsRequests == {[NoRequest EXCEPT !.tour = Some("atp")]}

ConcNewsBodies ==
    {[EmptyBody EXCEPT !.articles = Some(s)] :
        s \in {<<[id |-> "a", headline |-> "first", published |-> Some("2024-01-01")]>>,
               <<[id |-> "b", headline |-> "undated", published |-> None],
                 [id |-> "a", headline |-> "second", published |-> Some("2024-01-02")]>>}}

ConcLiveRequests == {[NoRequest EXCEPT !.tour = Some("wta")]}

ConcLiveBodies ==
    {[EmptyBody EXCEPT !.events = Some(<<Event(cs)>>)] :
        cs \in {<<[state |-> Some("in"), completed |-> None,
                   startDate |-> Some("2024-01-02")]>>,
                <<[state |-> Some("pre"), completed |-> None,
                   startDate |-> Some("2024-01-01")],
                  [state |-> Some("in"), completed |-> None, startDate |-> None]>>}}

ConcSearchRequests == {[NoRequest EXCEPT !.query = Some(<<"a">>)]}

ConcSearchBodies ==
    {[EmptyBody EXCEPT !.ranks = Some(s)] :
        s \in {<<SearchEntry(2, Athlete(Some(<<"A", "b">>), Some(<<"A">>), Some(<<"b">>)))>>,
               <<SearchEntry(3, Athlete(Some(<<"B", "a">>), Some(<<"B">>), Some(<<"a">>))),
                 SearchEntry(1, Athlete(None, Some(<<"a">>), None))>>}}

ConcBodiesFor(i) ==
    CASE handler[i] = "news" -> ConcNewsBodies
      [] handler[i] = "live-matches" -> ConcLiveBodies
      [] handler[i] = "player-search" -> ConcSearchBodies
      [] OTHER -> {EmptyBody}

\* The upstream answers the fetches of invocation i, with a body of B.
Settle(i, B) ==
    \/ \E t \in {u \in Tours : fetch[i][u] = "pending"} :
          \E s \in Statuses, b \in B : FetchResolve(i, t, s, b)
    \/ \E t \in {u \in Tours : fetch[i][u] = "pending"} :
          \E s \in FailStatuses : FetchReject(i, t, s)

RankingsStep(i) ==
    \/ OverviewCall(i)
    \/ OverviewReturn(i)
    \/ \E raw \in LimitRequests : AtpRankingsCall(i, raw)
    \/ AtpRankingsReturn(i)
    \/ \E raw \in LimitRequests : WtaRankingsCall(i, raw)
    \/ WtaRankingsReturn(i)

NewsStep(i, R) ==
    \/ \E raw \in R : NewsCall(i, raw)
    \/ NewsReturn(i)

LiveStep(i, R) ==
    \/ \E raw \in R : LiveMatchesCall(i, raw)
    \/ LiveMatchesReturn(i)

SearchStep(i, R) ==
    \/ \E raw \in R : PlayerSearchCall(i, raw)
    \/ PlayerSearchReturn(i)

AnalyticsStep(i) ==
    \/ \E raw \in WindowRequests, d \in Summaries : Analytics(i, raw, d)
    \/ \E raw \in TxRequests, d \in TxLists : AnalyticsTransactions(i, raw, d)
    \/ \E raw \in WindowRequests, d \in Csvs : AnalyticsCsv(i, raw, d)

\* One invocation of any entrypoint.
Next ==
    \E i \in {1} :
       \/ RankingsStep(i)
       \/ NewsStep(i, NewsRequests)
       \/ LiveStep(i, LiveRequests)
       \/ SearchStep(i, SearchRequests)
       \/ AnalyticsStep(i)
       \/ Settle(i, BodiesFor(i))

Spec == Init /\ [][Next]_vars

\* One invocation of one group of entrypoints.
NextRankings == \E i \in {1} : RankingsStep(i) \/ Settle(i, BodiesFor(i))
SpecRankings == Init /\ [][NextRankings]_vars

NextNews == \E i \in {1} : NewsStep(i, NewsRequests) \/ Settle(i, BodiesFor(i))
SpecNews == Init /\ [][NextNews]_vars

NextLive == \E i \in {1} : LiveStep(i, LiveRequests) \/ Settle(i, BodiesFor(i))
SpecLive == Init /\ [][NextLive]_vars

NextSearch == \E i \in {1} : SearchStep(i, SearchRequests) \/ Settle(i, BodiesFor(i))
SpecSearch == Init /\ [][NextSearch]_vars

\* The analytics entrypoints, with or without the payment tracker.
InitAnalytics ==
    /\ pc = [i \in Inv |-> "idle"]
    /\ handler = [i \in Inv |-> "none"]
    /\ request = [i \in Inv |-> NoRequest]
    /\ input = [i \in Inv |-> NoInput]
    /\ fetch = [i \in Inv |-> [t \in Tours |-> "none"]]
    /\ resp = [i \in Inv |-> [t \in Tours |-> EmptyBody]]
    /\ output = [i \in Inv |-> NoOutput]
    /\ heap = [i \in Inv |-> EmptySlot]
    /\ tracker \in BOOLEAN
    /\ calls = <<>>
    /\ engine \in Engines

NextAnalytics == \E i \in Inv : AnalyticsStep(i)
SpecAnalytics == InitAnalytics /\ [][NextAnalytics]_vars

\* Several invocations in flight: each is suspended at its fetches and
\* resumed in any order.
NextConc ==
    \E i \in Inv :
       \/ NewsStep(i, ConcNewsRequests)
       \/ LiveStep(i, ConcLiveRequests)
       \/ SearchStep(i, ConcSearchRequests)
       \/ Settle(i, ConcBodiesFor(i))

SpecConc == Init /\ [][NextConc]_vars

(***************************************************************************)
(* Properties.                                                             *)
(***************************************************************************)
Returned(i, h) == pc[i] = "returned" /\ handler[i] = h

RankingsReturned(i) == Returned(i, "atp-rankings") \/ Returned(i, "wta-rankings")

UpstreamRanks(i) == RanksOf(resp[i][IF handler[i] = "atp-rankings" THEN "ATP" ELSE "WTA"])

\* C1: atp-rankings and wta-rankings return at most min(requested limit, 100)
\* entries, whatever limit the schema accepts, and totalRanked is the length
\* of the returned list.  (No list has fewer than 0 entries: a limit below 0
\* is read as allowing none.)
C1_RankingsWithinLimit ==
    \A i \in Inv :
       RankingsReturned(i) =>
          /\ Len(output[i].rankings)
                <= Max(0, MathMin(input[i].limit, RankingsCap))
          /\ output[i].totalRanked = Len(output[i].rankings)

\* What holds of the rankings handlers for a limit that is not negative, and
\* for every limit: totalRanked is the length of the list, and every entry's
\* movement is previousRank - rank.
RankingsWithinNonNegativeLimit ==
    \A i \in Inv :
       RankingsReturned(i) =>
          /\ input[i].limit >= 0 =>
                Len(output[i].rankings)
                   = MathMin(MathMin(input[i].limit, RankingsCap), Len(UpstreamRanks(i)))
          /\ output[i].totalRanked = Len(output[i].rankings)
          /\ \A k \in 1..Len(output[i].rankings) :
                output[i].rankings[k].movement
                   = output[i].rankings[k].previousRank - output[i].rankings[k].rank

NegativeLimitReturnsOverCap ==
    \E i \in Inv :
       /\ RankingsReturned(i)
       /\ input[i].limit < 0
       /\ Len(output[i].rankings) > RankingsCap

\* The merged article list of a news invocation, before the sort.
Merged(i) == FlatArticles(SelectedTours(input[i].tour), resp[i])

Ids(s) == {s[k].id : k \in 1..Len(s)}

Time(a) == GetTime(a.published)

AllDated(s) == \A k \in 1..Len(s) : Time(s[k]) # None

OnePerId(s) == \A j, k \in 1..Len(s) : s[j].id = s[k].id => j = k

FirstOfId(s, id) ==
    LET best == CHOOSE m \in 1..Len(s) :
                   /\ s[m].id = id
                   /\ \A n \in 1..Len(s) :
                         s[n].id = id =>
                            \/ Time(s[n])[1] < Time(s[m])[1]
                            \/ Time(s[n])[1] = Time(s[m])[1] /\ m <= n
    IN  s[best]

C3_NewsWithinLimit ==
    \A i \in Inv :
       Returned(i, "news") =>
          /\ output[i].count = Len(output[i].articles)
          /\ output[i].count <= Max(0, input[i].limit)
          /\ output[i].count <= NewsCap
          /\ output[i].count <= Cardinality(Ids(Merged(i)))

\* What holds of the news handler's count for a limit that is not negative.
NewsWithinNonNegativeLimit ==
    \A i \in Inv :
       Returned(i, "news") =>
          /\ output[i].count = Len(output[i].articles)
          /\ output[i].count <= Cardinality(Ids(Merged(i)))
          /\ input[i].limit >= 0 =>
                output[i].count
                   = MathMin(MathMin(input[i].limit, NewsCap), Cardinality(Ids(Merged(i))))

\* The competitions of the selected tours' scoreboards, counted event by
\* event.
RECURSIVE CompetitionTotal(_)
CompetitionTotal(events) ==
    IF events = <<>> THEN 0
    ELSE Len(CompetitionsOf(Head(events))) + CompetitionTotal(Tail(events))

SelectedCompetitions(i) ==
    LET sel == Range(SelectedTours(input[i].tour))
    IN  (IF "ATP" \in sel THEN CompetitionTotal(EventsOf(resp[i]["ATP"])) ELSE 0)
        + (IF "WTA" \in sel THEN CompetitionTotal(EventsOf(resp[i]["WTA"])) ELSE 0)

\* C4: in the live-matches output every live match precedes every match
\* that is not live, whatever the start times; liveCount is the number of
\* live matches returned and totalMatches the number of competitions of all
\* events of the selected tours.
C4_LiveFirst ==
    \A i \in Inv :
       Returned(i, "live-matches") =>
          LET ms == output[i].matches
          IN  /\ \A j, k \in 1..Len(ms) : ms[j].isLive /\ ~ms[k].isLive => j < k
              /\ output[i].liveCount
                    = Cardinality({k \in 1..Len(ms) : ms[k].isLive})
              /\ output[i].totalMatches = Len(ms)
              /\ output[i].totalMatches = SelectedCompetitions(i)

\* Upstream, a match that is not live comes before a live one, and a start
\* time is missing or unparsable.
C4_Witness ==
    \E i \in Inv :
       /\ Returned(i, "live-matches")
       /\ LET up == PushMatches(<<>>, SelectedTours(input[i].tour), resp[i])
          IN  /\ Len(up) = MaxMatches
              /\ \E j, k \in 1..Len(up) : j < k /\ ~up[j].isLive /\ up[k].isLive
              /\ \E j, k \in 1..Len(up) :
                    /\ up[j].isLive = up[k].isLive
                    /\ GetTime(up[j].startTime) = None
                    /\ GetTime(up[k].startTime) # None

NameFields == {"name", "firstName", "lastName"}

Ascending(players) ==
    \A j, k \in 1..Len(players) : j < k => players[j].rank <= players[k].rank

\* C5: every player the search returns has a displayName, firstName or
\* lastName that contains the query, case-insensitively; the list is
\* ascending by rank; found is its length; and when every selected tour's
\* ranking list is empty or absent, found is 0 and the list is empty.
C5_SearchHitsContainQuery ==
    \A i \in Inv :
       Returned(i, "player-search") =>
          LET ps == output[i].players
          IN  /\ \A k \in 1..Len(ps) :
                    \E f \in NameFields :
                       /\ ps[k][f] # None
                       /\ Includes(ToLowerCase(ps[k][f][1]),
                                   ToLowerCase(output[i].query))
              /\ Ascending(ps)
              /\ output[i].found = Len(ps)
              /\ (\A t \in Range(SelectedTours(input[i].tour)) :
                     RanksOf(resp[i][t]) = <<>>)
                    => output[i].found = 0 /\ ps = <<>>

\* What holds of the search for a query that is not empty: the above, and
\* every upstream entry of a selected tour with such a name is returned.
SearchHitsContainNonEmptyQuery ==
    \A i \in Inv :
       Returned(i, "player-search") /\ output[i].query # <<>> =>
          LET ps == output[i].players
          IN  /\ \A k \in 1..Len(ps) :
                    \E f \in NameFields :
                       /\ ps[k][f] # None
                       /\ Includes(ToLowerCase(ps[k][f][1]),
                                   ToLowerCase(output[i].query))
              /\ Ascending(ps)
              /\ output[i].found = Len(ps)
              /\ (\A t \in Range(SelectedTours(input[i].tour)) :
                     RanksOf(resp[i][t]) = <<>>)
                    => output[i].found = 0 /\ ps = <<>>

Issued(i) == Range(Urls(handler[i], input[i]))

\* C6: an upstream handler returns an envelope only when every fetch it
\* issued has succeeded; once one of its fetches has failed the invocation
\* has failed and has no envelope, whatever its other fetches did.
C6_NoPartialEnvelope ==
    \A i \in Inv :
       handler[i] \in UpstreamHandlers =>
          /\ pc[i] = "returned" => \A t \in Issued(i) : fetch[i][t] = "ok"
          /\ (\E t \in Tours : fetch[i][t] = "fail")
                => pc[i] = "failed" /\ output[i] = NoOutput
          /\ output[i] # NoOutput => pc[i] = "returned"

\* One fetch of an invocation has failed and its sibling has succeeded.
C6_Witness ==
    \E i \in Inv :
       /\ handler[i] \in UpstreamHandlers
       /\ pc[i] = "failed"
       /\ \E t, u \in Tours : fetch[i][t] = "fail" /\ fetch[i][u] = "ok"

\* C7: a player-search request with the empty string as its query is
\* rejected as a validation error and issues no fetch; no request that
\* violates the input schema issues a fetch.
C7_EmptyQueryRejected ==
    \A i \in Inv :
       handler[i] = "player-search" =>
          /\ request[i].query = Some(<<>>) =>
                pc[i] = "rejected" /\ \A t \in Tours : fetch[i][t] = "none"
          /\ ~SchemaAccepts(handler[i], request[i]) =>
                pc[i] = "rejected" /\ \A t \in Tours : fetch[i][t] = "none"

\* What holds of the validation: a request the schema does not accept is
\* rejected and issues no fetch.
SchemaViolationIssuesNoFetch ==
    \A i \in Inv :
       handler[i] # "none" /\ ~SchemaAccepts(handler[i], request[i]) =>
          pc[i] = "rejected" /\ \A t \in Tours : fetch[i][t] = "none"

Top5Of(players, body) ==
    /\ Len(players) <= OverviewTop
    /\ body.ranks = None => players = <<>>
    /\ body.ranks # None =>
          /\ Len(players) = MathMin(OverviewTop, Len(body.ranks[1]))
          /\ \A k \in 1..Len(players) :
                /\ DOMAIN players[k] = {"rank", "name", "points"}
                /\ players[k].rank = body.ranks[1][k].current
                /\ players[k].points = body.ranks[1][k].points
                /\ players[k].name = AthleteField(body.ranks[1][k], "displayName")

\* C8: the overview returns at most 5 players per tour: the first 5 of the
\* upstream list in its order when it has 5 or more, none when the ranks
\* list is absent; each record has the fields rank, name and points only.
C8_OverviewTop5 ==
    \A i \in Inv :
       Returned(i, "overview") =>
          /\ Top5Of(output[i].atp.players, resp[i]["ATP"])
          /\ Top5Of(output[i].wta.players, resp[i]["WTA"])

\* One tour's list is longer than 5 and the other tour's is absent.
C8_Witness ==
    \E i \in Inv :
       /\ Returned(i, "overview")
       /\ Len(RanksOf(resp[i]["ATP"])) > OverviewTop
       /\ resp[i]["WTA"].ranks = None
       /\ Len(output[i].atp.players) = OverviewTop

DegradedPayload(h, out) ==
    CASE h = "analytics" ->
            out.error = Some("Analytics not available") /\ out.payments = <<>>
      [] h = "analytics-transactions" -> out.transactions = <<>>
      [] h = "analytics-csv" -> out.csv = ""
      [] OTHER -> FALSE

\* C9: without the payment tracker each analytics handler returns its
\* degraded payload (an error with no payments, no transactions, an empty
\* CSV) and the collaborator is not called.
C9_DegradedWithoutTracker ==
    ~tracker =>
       /\ calls = <<>>
       /\ \A i \in Inv :
             pc[i] # "idle" =>
                pc[i] = "returned" /\ DegradedPayload(handler[i], output[i])

\* Without the tracker, two of the analytics handlers have returned.
C9_Witness ==
    /\ ~tracker
    /\ \E i, j \in Inv :
          /\ Returned(i, "analytics")
          /\ Returned(j, "analytics-transactions")
          /\ request[j].limit # None

\* The envelope an invocation returns when it runs alone: its accumulators
\* start empty.
AloneOutput(h, in, bodies) ==
    CASE h = "news" -> NewsBody(engine, in, bodies, {}).out
      [] h = "live-matches" -> LiveBody(engine, in, bodies, <<>>).out
      [] h = "player-search" -> SearchBody(engine, in, bodies, <<>>).out
      [] OTHER -> NoOutput

\* C10: with several invocations in flight, resumed in any order, each
\* returns what it returns alone on its input and its responses, and the
\* seen set and the matches and players lists of an invocation are touched
\* by that invocation only.
C10_InvocationsIsolated ==
    \A i \in Inv :
       /\ pc[i] = "returned" =>
             output[i] = AloneOutput(handler[i], input[i], resp[i])
       /\ heap[i] # EmptySlot => pc[i] = "returned"

\* Two invocations of the news handler have both returned an article with
\* the same id.
C10_Witness ==
    \E i, j \in Inv :
       /\ i # j
       /\ Returned(i, "news")
       /\ Returned(j, "news")
       /\ Ids(output[i].articles) \cap Ids(output[j].articles) # {}

====
